---- MODULE Spec2Model ----
(***************************************************************************)
(* The particle filter of src/src/particle_filter.cpp as a state machine.  *)
(*                                                                         *)
(* Numbers.  The code computes in doubles; the model computes in integers  *)
(* on lattices:                                                            *)
(*   - lengths are whole lattice units;                                    *)
(*   - angles are counted in units of YawEps (the code's 0.00001), and a   *)
(*     quarter turn is Quarter units, so that sin and cos are exact on      *)
(*     every angle the model reaches (multiples of Quarter);               *)
(*   - weights are fixed-point: One units are the code's 1.0, DblMin units *)
(*     are numeric_limits<double>::min(), the least positive normal, and   *)
(*     the units below DblMin stand for the subnormals;                    *)
(*   - a quotient of two doubles is the integer quotient rounded to zero.  *)
(* The random engine `gen` is an input: every draw is a choice from a      *)
(* small sample of the distribution's support.                             *)
(***************************************************************************)
EXTENDS Integers, Sequences, FiniteSets

VARIABLES
  is_initialized,  \* ParticleFilter::is_initialized
  num_particles,   \* ParticleFilter::num_particles
  particles,       \* ParticleFilter::particles
  pc,              \* position of the running call: "idle", or inside resample
  w,               \* resample: the copied weights
  maxWeight,       \* resample: the largest weight
  index,           \* resample: the wheel's index
  beta,            \* resample: the wheel's accumulator
  slot,            \* resample: the output loop's counter i
  resample_ps,     \* resample: the new generation being built
  call,            \* the last call begun and its arguments
  pre,             \* the filter's fields when that call began
  matched,         \* updateWeights: mapId, p_x, p_y at each multiv_prob call
  ncalls,          \* number of calls begun
  predicted,       \* dataAssociation: its first argument
  observations,    \* dataAssociation: its second argument, passed by reference
  observations_in, \* dataAssociation: the observations as the caller set them
  da_done          \* dataAssociation has returned

filterVars == <<is_initialized, num_particles, particles>>
resampleVars == <<pc, w, maxWeight, index, beta, slot, resample_ps>>
historyVars == <<call, pre, matched, ncalls>>
daVars == <<predicted, observations, observations_in, da_done>>
vars == <<is_initialized, num_particles, particles, pc, w, maxWeight, index,
          beta, slot, resample_ps, call, pre, matched, ncalls, predicted,
          observations, observations_in, da_done>>

----------------------------------------------------------------------------
(* Bounds of the model. *)

\* The number of particles init creates (100 in the code, scaled down).
NumParticles == 2

\* The number of calls the driver makes.
MaxCalls == 3

\* The longest predicted / observations sequence handed to dataAssociation.
MaxLen == 2

(* The code's constants, in the model's units. *)

\* 1.0, in weight units.
One == 16

\* numeric_limits<double>::min(), in weight units.
DblMin == 2

\* numeric_limits<double>::max(), above every squared distance of the model.
DblMax == 1000000

\* 0.00001, in angle units.
YawEps == 1

\* A quarter turn, in angle units.
Quarter == 2 * YawEps

----------------------------------------------------------------------------
(* Arithmetic. *)

Abs(a) == IF a < 0 THEN -a ELSE a

\* a / b on doubles: the quotient, rounded toward zero.
Quot(a, b) ==
  IF (a >= 0) = (b > 0) THEN Abs(a) \div Abs(b) ELSE -(Abs(a) \div Abs(b))

\* sin and cos of an angle that is a multiple of a quarter turn.
Sin(t) ==
  LET q == (t \div Quarter) % 4
  IN  CASE q = 0 -> 0 [] q = 1 -> 1 [] q = 2 -> 0 [] OTHER -> -1

Cos(t) ==
  LET q == (t \div Quarter) % 4
  IN  CASE q = 0 -> 1 [] q = 1 -> 0 [] q = 2 -> -1 [] OTHER -> 0

\* v / 2^n, underflowing to 0.
RECURSIVE Halved(_, _)
Halved(v, n) == IF n <= 0 \/ v = 0 THEN v ELSE Halved(v \div 2, n - 1)

\* The least r with r * r >= n.
RECURSIVE CeilSqrtFrom(_, _)
CeilSqrtFrom(n, r) == IF r * r >= n THEN r ELSE CeilSqrtFrom(n, r + 1)

\* dist of helper_functions.h: the Euclidean distance, rounded up (its
\* comparison with a whole sensor range is exact).
dist(x1, y1, x2, y2) ==
  CeilSqrtFrom((x2 - x1) * (x2 - x1) + (y2 - y1) * (y2 - y1), 0)

\* multiv_prob of helper_functions.h: the density of the uncorrelated
\* bivariate Gaussian with mean (mu_x, mu_y) at (x_obs, y_obs), in weight
\* units: 1 / (2 pi sig_x sig_y) at the mean, halved for every unit of
\* dx^2/sig_x^2 + dy^2/sig_y^2, and underflowing to 0.
multiv_prob(sig_x, sig_y, x_obs, y_obs, mu_x, mu_y) ==
  LET gauss_norm == Quot(One * 100, 628 * sig_x * sig_y)
      exponent == Quot((x_obs - mu_x) * (x_obs - mu_x), sig_x * sig_x)
                  + Quot((y_obs - mu_y) * (y_obs - mu_y), sig_y * sig_y)
  IN  Halved(gauss_norm, exponent)

\* A product of two weights.
Times(a, b) == Quot(a * b, One)

\* The samples of normal_distribution<double>(mean, std) the model draws.
Normal(mean, std) == {mean - std, mean + std}

----------------------------------------------------------------------------
(* Inputs of the model. *)

\* init: x, y, theta and std.
InitArgs ==
  {<<0, 0, 0, <<0, 0, 0>>>>,
   <<0, 0, Quarter, <<0, 0, 0>>>>,
   <<0, 0, 0, <<1, 0, 0>>>>}

\* prediction: delta_t, std_pos, velocity and yaw_rate.
PredictionArgs ==
  {<<1, <<0, 0, 0>>, 1, 0>>,
   <<1, <<0, 0, 0>>, 1, YawEps>>,
   <<1, <<0, 0, 0>>, Quarter, Quarter>>,
   <<1, <<0, 1, 0>>, 1, 0>>}

\* updateWeights: sensor_range, std_landmark, observations and the map.
Landmark(id, x, y) == [id_i |-> id, x_f |-> x, y_f |-> y]
Obs(id, x, y) == [id |-> id, x |-> x, y |-> y]
TheMap == <<Landmark(1, 3, 0), Landmark(2, 3, 1)>>
UpdateArgs ==
  {<<2, <<1, 1>>, <<>>, TheMap>>,
   <<2, <<1, 1>>, <<Obs(-1, 2, 0)>>, TheMap>>,
   <<2, <<1, 1>>, <<Obs(-1, 3, 0)>>, TheMap>>,
   <<3, <<1, 1>>, <<Obs(-1, 2, 0), Obs(-1, 2, 1)>>, TheMap>>}

\* SetAssociations: the diagnostics the driver attaches.
AssociationSets == {<<1>>}
SenseSets == {<<1>>}

----------------------------------------------------------------------------
(* History: which call runs and what the filter was when it began. *)

Begin(op, args) ==
  /\ pc = "idle"
  /\ ncalls < MaxCalls
  /\ ncalls' = ncalls + 1
  /\ call' = [op |-> op, args |-> args]
  /\ pre' = [is_initialized |-> is_initialized,
             num_particles |-> num_particles,
             particles |-> particles]

----------------------------------------------------------------------------
(* ParticleFilter::init *)

\* A guard that never holds: init seeds again on every call.
NeverInitialized == FALSE

\* The guard of init.
AlreadyInitialized == is_initialized

\* The particle init creates at loop index i.
NewParticle(i, px, py, ptheta) ==
  [id |-> i, x |-> px, y |-> py, theta |-> ptheta, weight |-> One,
   associations |-> <<>>, sense_x |-> <<>>, sense_y |-> <<>>]

init(x, y, theta, std) ==
  /\ Begin("init", [x |-> x, y |-> y, theta |-> theta, std |-> std])
  /\ IF AlreadyInitialized
       THEN UNCHANGED filterVars
       ELSE \E dist_x \in [1..NumParticles -> Normal(x, std[1])],
               dist_y \in [1..NumParticles -> Normal(y, std[2])],
               dist_theta \in [1..NumParticles -> Normal(theta, std[3])] :
              /\ num_particles' = NumParticles
              /\ particles' = particles \o
                   [i \in 1..NumParticles |->
                      NewParticle(i - 1, dist_x[i], dist_y[i], dist_theta[i])]
              /\ is_initialized' = TRUE
  /\ UNCHANGED <<resampleVars, matched, daVars>>

----------------------------------------------------------------------------
(* ParticleFilter::prediction *)

\* The curved model taken at the threshold too.
TurningInclusive(yaw_rate) == Abs(yaw_rate) >= YawEps

\* The test that selects the curved motion model.
Turning(yaw_rate) == Abs(yaw_rate) > YawEps

\* The motion model applied to one particle.
Moved(p, delta_t, velocity, yaw_rate) ==
  IF Turning(yaw_rate)
    THEN [p EXCEPT
            !.x = p.x + Quot(velocity, yaw_rate)
                        * (Sin(p.theta + yaw_rate * delta_t) - Sin(p.theta)),
            !.y = p.y + Quot(velocity, yaw_rate)
                        * (Cos(p.theta) - Cos(p.theta + yaw_rate * delta_t)),
            !.theta = p.theta + yaw_rate * delta_t]
    ELSE [p EXCEPT
            !.x = p.x + velocity * delta_t * Cos(p.theta),
            !.y = p.y + velocity * delta_t * Sin(p.theta)]

prediction(delta_t, std_pos, velocity, yaw_rate) ==
  /\ is_initialized
  /\ Begin("prediction", [delta_t |-> delta_t, std_pos |-> std_pos,
                          velocity |-> velocity, yaw_rate |-> yaw_rate])
  /\ \E dist_x \in [1..num_particles -> Normal(0, std_pos[1])],
        dist_y \in [1..num_particles -> Normal(0, std_pos[2])],
        dist_theta \in [1..num_particles -> Normal(0, std_pos[3])] :
       particles' =
         [i \in 1..num_particles |->
            LET m == Moved(particles[i], delta_t, velocity, yaw_rate)
            IN  [m EXCEPT !.x = m.x + dist_x[i],
                          !.y = m.y + dist_y[i],
                          !.theta = m.theta + dist_theta[i]]]
  /\ UNCHANGED <<is_initialized, num_particles, resampleVars, matched, daVars>>

----------------------------------------------------------------------------
(* ParticleFilter::updateWeights *)

\* The map landmarks within the sensor range of a particle, as LandmarkObs.
Predictions(p, sensor_range, landmarks) ==
  LET InRange(lm) == dist(p.x, p.y, lm.x_f, lm.y_f) <= sensor_range
      near == SelectSeq(landmarks, InRange)
  IN  [j \in 1..Len(near) |-> Obs(near[j].id_i, near[j].x_f, near[j].y_f)]

\* An observation in map coordinates, seen from a particle.
Transformed(p, o) ==
  [x |-> p.x + Cos(p.theta) * o.x - Sin(p.theta) * o.y,
   y |-> p.y + Sin(p.theta) * o.x + Cos(p.theta) * o.y]

\* The association loop started with landmark id 0 for "none".
NoMatchZeroId == [minDist |-> DblMax, mapId |-> 0, p_x |-> 0, p_y |-> 0]

\* minDist, mapId, p_x and p_y before the association loop.
NoMatch == [minDist |-> DblMax, mapId |-> -1, p_x |-> 0, p_y |-> 0]

\* The association loop from index k on.
RECURSIVE NearestFrom(_, _, _, _)
NearestFrom(predictions, obs, k, best) ==
  IF k > Len(predictions) THEN best
  ELSE LET xDist == obs.x - predictions[k].x
           yDist == obs.y - predictions[k].y
           distance == xDist * xDist + yDist * yDist
       IN  NearestFrom(predictions, obs, k + 1,
             IF distance < best.minDist
               THEN [minDist |-> distance, mapId |-> predictions[k].id,
                     p_x |-> predictions[k].x, p_y |-> predictions[k].y]
               ELSE best)

\* The observation loop started from the weight the particle has.
KeepWeight(p) == p.weight

\* The weight a particle starts the observation loop with.
StartWeight(p) == One

\* The observation loop from index j on.
RECURSIVE WeightFrom(_, _, _, _, _, _)
WeightFrom(p, predictions, std_landmark, obs, j, weight) ==
  IF j > Len(obs) THEN weight
  ELSE LET o == Transformed(p, obs[j])
           m == NearestFrom(predictions, o, 1, NoMatch)
           lik == multiv_prob(std_landmark[1], std_landmark[2],
                              o.x, o.y, m.p_x, m.p_y)
       IN  WeightFrom(p, predictions, std_landmark, obs, j + 1,
                      Times(weight, lik))

updateWeights(sensor_range, std_landmark, obs, map_landmarks) ==
  /\ is_initialized
  /\ Begin("updateWeights", [sensor_range |-> sensor_range,
                             std_landmark |-> std_landmark,
                             observations |-> obs,
                             map_landmarks |-> map_landmarks])
  /\ particles' =
       [i \in 1..num_particles |->
          LET p == particles[i]
              predictions == Predictions(p, sensor_range, map_landmarks)
          IN  [p EXCEPT !.weight =
                 WeightFrom(p, predictions, std_landmark, obs, 1,
                            StartWeight(p))]]
  /\ matched' =
       [i \in 1..num_particles |->
          LET p == particles[i]
              predictions == Predictions(p, sensor_range, map_landmarks)
          IN  [j \in 1..Len(obs) |->
                 LET m == NearestFrom(predictions, Transformed(p, obs[j]),
                                      1, NoMatch)
                 IN  [mapId |-> m.mapId, p_x |-> m.p_x, p_y |-> m.p_y]]]
  /\ UNCHANGED <<is_initialized, num_particles, resampleVars, daVars>>

----------------------------------------------------------------------------
(* ParticleFilter::SetAssociations, on a particle of the filter *)

SetAssociations(i, associations, sense_x, sense_y) ==
  /\ is_initialized
  /\ i \in 1..Len(particles)
  /\ Begin("SetAssociations", [particle |-> i, associations |-> associations,
                               sense_x |-> sense_x, sense_y |-> sense_y])
  /\ particles' = [particles EXCEPT ![i].associations = associations,
                                    ![i].sense_x = sense_x,
                                    ![i].sense_y = sense_y]
  /\ UNCHANGED <<is_initialized, num_particles, resampleVars, matched, daVars>>

----------------------------------------------------------------------------
(* ParticleFilter::resample, one action per step of its loops *)

\* The scan for the largest weight, from index i on.
RECURSIVE MaxWeightFrom(_, _, _)
MaxWeightFrom(ps, i, m) ==
  IF i > Len(ps) THEN m
  ELSE MaxWeightFrom(ps, i + 1, IF m < ps[i].weight THEN ps[i].weight ELSE m)

\* The values of uniform_real_distribution<double>(0.0, m): [0, m).
Uniform(m) == 0..(m - 1)

\* An output loop that stops one slot early.
MoreSlotsOffByOne(i, n) == i < n - 1

\* The test of the output loop.
MoreSlots(i, n) == i < n

\* The test of the wheel's loop.
Spinning(b, weight) == b > weight

\* The particle after the wheel's index pushed instead.
EmittedAfterStep(ps, idx) == ps[((idx + 1) % Len(ps)) + 1]

\* The pushed particle given a fresh weight.
EmittedReweighted(ps, idx) == [ps[idx + 1] EXCEPT !.weight = One]

\* The particle pushed to the new generation.
Emitted(ps, idx) == ps[idx + 1]

resample_begin ==
  /\ is_initialized
  /\ Begin("resample", <<>>)
  /\ w' = [i \in 1..num_particles |-> particles[i].weight]
  /\ maxWeight' = MaxWeightFrom(particles, 1, DblMin)
  /\ \E dist_i \in 0..(num_particles - 1) : index' = dist_i
  /\ beta' = 0
  /\ resample_ps' = <<>>
  /\ slot' = 0
  /\ pc' = "for"
  /\ UNCHANGED <<filterVars, matched, daVars>>

resample_draw ==
  /\ pc = "for"
  /\ MoreSlots(slot, num_particles)
  /\ \E dist_w \in Uniform(maxWeight) : beta' = beta + 2 * dist_w
  /\ pc' = "while"
  /\ UNCHANGED <<filterVars, w, maxWeight, index, slot, resample_ps,
                 historyVars, daVars>>

resample_step ==
  /\ pc = "while"
  /\ Spinning(beta, w[index + 1])
  /\ beta' = beta - w[index + 1]
  /\ index' = (index + 1) % num_particles
  /\ UNCHANGED <<filterVars, pc, w, maxWeight, slot, resample_ps,
                 historyVars, daVars>>

resample_emit ==
  /\ pc = "while"
  /\ ~Spinning(beta, w[index + 1])
  /\ resample_ps' = Append(resample_ps, Emitted(particles, index))
  /\ slot' = slot + 1
  /\ pc' = "for"
  /\ UNCHANGED <<filterVars, w, maxWeight, index, beta, historyVars, daVars>>

resample_end ==
  /\ pc = "for"
  /\ ~MoreSlots(slot, num_particles)
  /\ particles' = resample_ps
  /\ pc' = "idle"
  /\ w' = <<>>
  /\ maxWeight' = 0
  /\ index' = 0
  /\ beta' = 0
  /\ slot' = 0
  /\ resample_ps' = <<>>
  /\ UNCHANGED <<is_initialized, num_particles, historyVars, daVars>>

\* The steps of a resample call that has begun.
resample_run ==
  resample_draw \/ resample_step \/ resample_emit \/ resample_end

----------------------------------------------------------------------------
(* ParticleFilter::dataAssociation *)

\* A test that also takes a landmark at the same distance.
CloserOrEqual(distance, minDist) == distance <= minDist

\* The test that takes a predicted landmark as the nearest so far.
Closer(distance, minDist) == distance < minDist

\* The loop over predicted from index k on, for one observation.
RECURSIVE PredictedLoopFrom(_, _, _, _, _)
PredictedLoopFrom(pred, o, k, minDist, mapId) ==
  IF k > Len(pred) THEN o
  ELSE LET xDist == o.x - pred[k].x
           yDist == o.y - pred[k].y
           distance == xDist * xDist + yDist * yDist
           take == Closer(distance, minDist)
           newId == IF take THEN pred[k].id ELSE mapId
       IN  PredictedLoopFrom(pred, [o EXCEPT !.id = newId], k + 1,
                             IF take THEN distance ELSE minDist, newId)

\* The id assigned after the loop over predicted instead of inside it.
dataAssociationIdAfterLoop(pred, obs) ==
  [j \in 1..Len(obs) |->
     IF pred = <<>> THEN [obs[j] EXCEPT !.id = -1]
     ELSE PredictedLoopFrom(pred, obs[j], 1, DblMax, -1)]

\* The observations as dataAssociation leaves them.
dataAssociation(pred, obs) ==
  [j \in 1..Len(obs) |-> PredictedLoopFrom(pred, obs[j], 1, DblMax, -1)]

\* The predicted landmarks and the observations the model hands over.
PredictedPool == {Obs(1, 50, 50), Obs(2, 20, 20), Obs(3, 22, 18)}
ObservationPool == {Obs(-1, 21, 19), Obs(7, 21, 19), Obs(-1, 40, 40)}

SeqsUpTo(S, n) == UNION {[1..m -> S] : m \in 0..n}

CallDataAssociation ==
  /\ ~da_done
  /\ observations' = dataAssociation(predicted, observations)
  /\ da_done' = TRUE
  /\ UNCHANGED <<filterVars, resampleVars, historyVars, predicted,
                 observations_in>>

----------------------------------------------------------------------------
(* The filter as constructed, and its driver. *)

Constructed ==
  /\ is_initialized = FALSE
  /\ num_particles = 0
  /\ particles = <<>>
  /\ pc = "idle"
  /\ w = <<>>
  /\ maxWeight = 0
  /\ index = 0
  /\ beta = 0
  /\ slot = 0
  /\ resample_ps = <<>>
  /\ call = [op |-> "none", args |-> <<>>]
  /\ pre = [is_initialized |-> FALSE, num_particles |-> 0, particles |-> <<>>]
  /\ matched = <<>>
  /\ ncalls = 0

Init ==
  /\ Constructed
  /\ predicted = <<>>
  /\ observations = <<>>
  /\ observations_in = <<>>
  /\ da_done = TRUE

Next ==
  \/ \E a \in InitArgs : init(a[1], a[2], a[3], a[4])
  \/ \E a \in PredictionArgs : prediction(a[1], a[2], a[3], a[4])
  \/ \E a \in UpdateArgs : updateWeights(a[1], a[2], a[3], a[4])
  \/ \E i \in 1..NumParticles, associations \in AssociationSets,
        sense_x \in SenseSets, sense_y \in SenseSets :
       SetAssociations(i, associations, sense_x, sense_y)
  \/ resample_begin
  \/ resample_draw
  \/ resample_step
  \/ resample_emit
  \/ resample_end

Spec == Init /\ [][Next]_vars

\* A call that has begun runs on: resample's steps are taken while enabled.
FairSpec == Spec /\ WF_vars(resample_run)

\* dataAssociation applied to every pair of arguments.
InitDA ==
  /\ Constructed
  /\ predicted \in SeqsUpTo(PredictedPool, MaxLen)
  /\ observations \in SeqsUpTo(ObservationPool, MaxLen)
  /\ observations_in = observations
  /\ da_done = FALSE

NextDA == CallDataAssociation

SpecDA == InitDA /\ [][NextDA]_vars

----------------------------------------------------------------------------
(* Properties. *)

Positive(ws) == \E i \in 1..Len(ws) : ws[i] > 0
AllZero(ws) == \A i \in 1..Len(ws) : ws[i] = 0
Weights(ps) == [i \in 1..Len(ps) |-> ps[i].weight]

\* C1: once init has run, the particle sequence has num_particles
\* (NumParticles) elements in every state, before and after every call.
PopulationSize ==
  /\ Len(particles) = num_particles
  /\ is_initialized => num_particles = NumParticles

\* A resample over unequal weights, one of them positive, has returned.
PopulationSizeWitness ==
  /\ pc = "idle"
  /\ call.op = "resample"
  /\ Positive(Weights(pre.particles))
  /\ \E i \in 1..Len(pre.particles) : pre.particles[i].weight = 0
  /\ Len(particles) = NumParticles

\* C2: resample called with every weight 0 returns, leaving num_particles
\* particles.
ZeroWeightResampleReturns ==
  (pc # "idle" /\ AllZero(w)) ~> (pc = "idle" /\ Len(particles) = num_particles)

\* C3: is_initialized never goes back to false, and a call of init on an
\* initialized filter leaves num_particles, particles and is_initialized as
\* they were.
InitOneShot ==
  /\ pre.is_initialized => is_initialized
  /\ (call.op = "init" /\ pre.is_initialized) =>
       /\ is_initialized
       /\ num_particles = pre.num_particles
       /\ particles = pre.particles

\* init was called again, with other arguments, after the weights changed.
InitOneShotWitness ==
  /\ call.op = "init"
  /\ pre.is_initialized
  /\ call.args.std = <<1, 0, 0>>
  /\ \E i \in 1..Len(particles) : particles[i].weight # One

\* C4, as claimed: with a positive weight among the particles, no output
\* slot of resample holds a particle of weight 0.
NoZeroWeightOutput ==
  /\ (pc # "idle" /\ Positive(w)) =>
       \A k \in 1..Len(resample_ps) : resample_ps[k].weight > 0
  /\ (pc = "idle" /\ call.op = "resample"
        /\ Positive(Weights(pre.particles))) =>
       \A k \in 1..Len(particles) : particles[k].weight > 0

\* C4, amended: with a positive weight among the particles, a slot filled
\* while beta is positive holds a particle of positive weight; a slot filled
\* while beta is still 0 (every draw so far was exactly 0) holds the particle
\* at the starting index, whatever its weight, so the particles of weight 0
\* in the output are copies of that one particle at the front of the output.
ZeroWeightOnlyAtRest ==
  (pc # "idle" /\ Positive(w)) =>
    /\ (pc = "for" /\ slot >= 1 /\ beta > 0) => resample_ps[slot].weight > 0
    /\ (pc = "for" /\ slot >= 1 /\ beta = 0) =>
         \A k \in 1..slot : resample_ps[k] = particles[index + 1]
    /\ \A k \in 1..Len(resample_ps) :
         resample_ps[k].weight = 0 =>
           \A m \in 1..k : resample_ps[m] = resample_ps[k]

\* The wheel has stepped over a particle of weight 0 and filled a slot.
ZeroWeightOnlyAtRestWitness ==
  /\ pc = "for"
  /\ slot >= 1
  /\ beta > 0
  /\ Positive(w)
  /\ \E i \in 1..Len(w) : w[i] = 0
  /\ \E k \in 1..Len(resample_ps) : resample_ps[k].weight = 0
  /\ \E k \in 1..Len(resample_ps) : resample_ps[k].weight > 0

\* The weight of a particle whose every observation is matched to (0,0).
RECURSIVE OriginWeightFrom(_, _, _, _, _)
OriginWeightFrom(p, std_landmark, obs, j, weight) ==
  IF j > Len(obs) THEN weight
  ELSE LET c == Cos(p.theta)
           s == Sin(p.theta)
           mx == p.x + c * obs[j].x - s * obs[j].y
           my == p.y + s * obs[j].x + c * obs[j].y
       IN  OriginWeightFrom(p, std_landmark, obs, j + 1,
             Times(weight,
                   multiv_prob(std_landmark[1], std_landmark[2], mx, my, 0, 0)))

Within(p, lm, sensor_range) ==
  /\ sensor_range >= 0
  /\ (p.x - lm.x_f) * (p.x - lm.x_f) + (p.y - lm.y_f) * (p.y - lm.y_f)
       <= sensor_range * sensor_range

Isolated(p, args) ==
  \A k \in 1..Len(args.map_landmarks) :
    ~Within(p, args.map_landmarks[k], args.sensor_range)

\* C6: in updateWeights, a particle with no map landmark within
\* sensor_range has every observation matched to id -1 at (0,0), and its
\* weight is the product of the likelihoods against the origin; the call
\* returns.
OutOfRangeAgainstOrigin ==
  call.op = "updateWeights" =>
    /\ Len(matched) = Len(particles)
    /\ \A i \in 1..Len(particles) :
         Isolated(pre.particles[i], call.args) =>
           /\ Len(matched[i]) = Len(call.args.observations)
           /\ \A j \in 1..Len(matched[i]) :
                matched[i][j] = [mapId |-> -1, p_x |-> 0, p_y |-> 0]
           /\ particles[i].weight =
                OriginWeightFrom(pre.particles[i], call.args.std_landmark,
                                 call.args.observations, 1, One)

\* updateWeights has weighted, against an observation, a particle with no
\* landmark in range and a particle with one.
OutOfRangeAgainstOriginWitness ==
  /\ call.op = "updateWeights"
  /\ call.args.observations # <<>>
  /\ \E i \in 1..Len(particles) : Isolated(pre.particles[i], call.args)
  /\ \E i \in 1..Len(particles) : ~Isolated(pre.particles[i], call.args)

\* C8: after updateWeights the weight of a particle does not depend on its
\* weight before: particles at the same pose have the same weight, whatever
\* their weights were, and with no observation every weight is exactly 1.0.
WeightReset ==
  call.op = "updateWeights" =>
    /\ \A i, j \in 1..Len(particles) :
         (/\ particles[i].x = particles[j].x
          /\ particles[i].y = particles[j].y
          /\ particles[i].theta = particles[j].theta)
           => particles[i].weight = particles[j].weight
    /\ call.args.observations = <<>> =>
         \A i \in 1..Len(particles) : particles[i].weight = One

\* updateWeights with no observation has run on particles whose weights
\* were not 1.0.
WeightResetWitness ==
  /\ call.op = "updateWeights"
  /\ call.args.observations = <<>>
  /\ \E i \in 1..Len(pre.particles) : pre.particles[i].weight # One
  /\ Len(particles) = NumParticles

\* C9: prediction with |yaw_rate| <= 0.00001 and no process noise moves each
\* particle by velocity * delta_t * (cos theta, sin theta) and changes
\* nothing else of it; from init at (0,0,0) with no noise,
\* prediction(1, (0,0,0), 1, 0) puts every particle at (1,0,0), weight 1.0.
StraightPrediction ==
  (/\ call.op = "prediction"
   /\ Abs(call.args.yaw_rate) <= YawEps
   /\ call.args.std_pos = <<0, 0, 0>>) =>
    /\ Len(particles) = Len(pre.particles)
    /\ \A i \in 1..Len(particles) :
         LET p == pre.particles[i]
             step == call.args.velocity * call.args.delta_t
         IN  particles[i] = [p EXCEPT !.x = p.x + step * Cos(p.theta),
                                      !.y = p.y + step * Sin(p.theta)]
    /\ (/\ pre.particles =
             [i \in 1..NumParticles |-> NewParticle(i - 1, 0, 0, 0)]
        /\ call.args = [delta_t |-> 1, std_pos |-> <<0, 0, 0>>,
                        velocity |-> 1, yaw_rate |-> 0]) =>
         \A i \in 1..NumParticles :
           /\ particles[i].x = 1
           /\ particles[i].y = 0
           /\ particles[i].theta = 0
           /\ particles[i].weight = One

\* A prediction with a yaw rate at the threshold, not 0, has moved a
\* particle that heads along y.
StraightPredictionWitness ==
  /\ call.op = "prediction"
  /\ call.args.yaw_rate = YawEps
  /\ call.args.std_pos = <<0, 0, 0>>
  /\ \E i \in 1..Len(particles) :
       /\ pre.particles[i].theta = Quarter
       /\ particles[i].y = pre.particles[i].y + 1

\* C10: every particle resample produces is a copy, field for field, of a
\* particle of the sequence before the call, and every particle's id is one
\* of the ids init assigned, 0 .. num_particles - 1.
ResampleCopies ==
  /\ pc # "idle" =>
       \A k \in 1..Len(resample_ps) :
         \E j \in 1..Len(particles) : resample_ps[k] = particles[j]
  /\ (pc = "idle" /\ call.op = "resample") =>
       \A k \in 1..Len(particles) :
         \E j \in 1..Len(pre.particles) : particles[k] = pre.particles[j]
  /\ \A k \in 1..Len(particles) : particles[k].id \in 0..(num_particles - 1)

\* A resample after a weighting has returned one particle twice.
ResampleCopiesWitness ==
  /\ pc = "idle"
  /\ call.op = "resample"
  /\ \E k, m \in 1..Len(particles) :
       /\ k # m
       /\ particles[k].id = particles[m].id
       /\ particles[k].weight # One
  /\ \E j \in 1..Len(pre.particles) :
       \A k \in 1..Len(particles) : particles[k] # pre.particles[j]

SqDist(o, lm) == (o.x - lm.x) * (o.x - lm.x) + (o.y - lm.y) * (o.y - lm.y)

\* The lowest index of a predicted landmark nearest to o.
FirstNearest(o) ==
  CHOOSE k \in 1..Len(predicted) :
    /\ \A m \in 1..Len(predicted) :
         SqDist(o, predicted[k]) <= SqDist(o, predicted[m])
    /\ \A m \in 1..(k - 1) :
         SqDist(o, predicted[m]) > SqDist(o, predicted[k])

\* C5: with predicted not empty, dataAssociation gives every observation the
\* id of the nearest predicted landmark (squared distance), the one of lowest
\* index among equals; predicted [(5,5,id 1), (2,2,id 2)] and observation
\* (2.1,1.9), here in tenths, gives id 2.
NearestLowestIndex ==
  (da_done /\ predicted # <<>>) =>
    /\ Len(observations) = Len(observations_in)
    /\ \A j \in 1..Len(observations) :
         /\ observations[j] =
              [observations_in[j] EXCEPT
                 !.id = predicted[FirstNearest(observations_in[j])].id]
         /\ (/\ predicted = <<Obs(1, 50, 50), Obs(2, 20, 20)>>
             /\ observations_in[j].x = 21
             /\ observations_in[j].y = 19) => observations[j].id = 2

\* dataAssociation has settled a tie between two predicted landmarks.
NearestLowestIndexWitness ==
  /\ da_done
  /\ predicted = <<Obs(2, 20, 20), Obs(3, 22, 18)>>
  /\ Len(observations) >= 1
  /\ observations_in[1] = Obs(7, 21, 19)
  /\ observations[1].id = 2

\* C7: with predicted empty, dataAssociation leaves every observation's id,
\* x and y as the caller set them.
EmptyPredictedKeeps ==
  (da_done /\ predicted = <<>>) => observations = observations_in

\* dataAssociation has returned from an empty predicted and an observation
\* whose id the caller had set.
EmptyPredictedKeepsWitness ==
  /\ da_done
  /\ predicted = <<>>
  /\ \E j \in 1..Len(observations) : observations_in[j].id = 7

====
